---- MODULE Spec2Model ----
(***************************************************************************)
(* Graph builder and aggregation helper of the biorefinery network         *)
(* analysis (src/src/utils.py), the reading and preprocessing of the       *)
(* tables (read_from_file.py, preprocess.py), the dispatch of main.analyse *)
(* (main.py), the selectors of degree_distribution.py and                  *)
(* degree_correlation.py, the path lengths of graph_property.py and the    *)
(* Girvan-Newman clustering of graph_clusters.py with its score and its    *)
(* colouring.                                                              *)
(*                                                                         *)
(* A chemical name is a sequence of characters.  Only the two characters   *)
(* that str.split("; ") and str.strip() look at are kept apart, ";" and    *)
(* " "; any other run of characters is one opaque symbol ("a", "oxygen"),  *)
(* of which "A" and "B" are the uppercase forms of "a" and "b".            *)
(* A data frame is a function from column names to equally long lists.     *)
(***************************************************************************)
EXTENDS Integers, Sequences, FiniteSets, Bags, TLC

\* ------------------------------------------------------------------ bounds
MaxRows == 2
MaxWeight == 2
MaxTuples == 3
MaxValue == 1

\* ------------------------------------------------------------- strings
STEPS == "Number of Reaction Steps"

IsSepAt(s, i) == i + 1 <= Len(s) /\ s[i] = ";" /\ s[i + 1] = " "

\* str.split(sep="; "): cut at every non-overlapping "; ", left to right.
RECURSIVE split(_)
split(s) ==
    IF \E i \in 1..Len(s) : IsSepAt(s, i)
    THEN LET i == CHOOSE k \in 1..Len(s) :
                      IsSepAt(s, k) /\ \A m \in 1..(k - 1) : ~IsSepAt(s, m)
         IN  <<SubSeq(s, 1, i - 1)>> \o split(SubSeq(s, i + 2, Len(s)))
    ELSE <<s>>

RECURSIVE lstrip(_)
lstrip(s) == IF s # <<>> /\ Head(s) = " " THEN lstrip(Tail(s)) ELSE s

RECURSIVE rstrip(_)
rstrip(s) ==
    IF s # <<>> /\ s[Len(s)] = " " THEN rstrip(SubSeq(s, 1, Len(s) - 1)) ELSE s

\* str.strip()
strip(s) == rstrip(lstrip(s))

\* ------------------------------------------------------------- tables
\* The rows the tables are drawn from, as (Reactant, Product) cells:
\*   "a" -> "a", "b; a" -> "a", "a" -> "b; a", "A" -> "b" and "c;  b" -> "a"
\* (two blanks, so that the second reactant is the token " b").
Reactions ==
    { << <<"a">>, <<"a">> >>,
      << <<"b", ";", " ", "a">>, <<"a">> >>,
      << <<"a">>, <<"b", ";", " ", "a">> >>,
      << <<"A">>, <<"b">> >>,
      << <<"c", ";", " ", " ", "b">>, <<"a">> >> }

Weights == 1..MaxWeight

DataFrame(rs, ps) == [Reactant |-> rs, Product |-> ps]

DataFrameWithSteps(rs, ps, ws) == (STEPS :> ws) @@ DataFrame(rs, ps)

Column(rows, c) == [i \in DOMAIN rows |-> rows[i][c]]

Tables ==
    UNION { { DataFrame(Column(rows, 1), Column(rows, 2)) : rows \in [1..n -> Reactions] }
            \cup
            { DataFrameWithSteps(Column(rows, 1), Column(rows, 2), ws) :
                  rows \in [1..n -> Reactions], ws \in [1..n -> Weights] }
          : n \in 0..MaxRows }

\* The fixtures of tests/test_utils.py.
fixture_reactants ==
    << <<"calcium", ";", " ", "oxygen", ";", " ", "nitrogen">>,
       <<"carbon-dioxide">>, <<"nitrogen">>, <<"oxygen">>, <<"oxygen">> >>

fixture_products ==
    << <<"oxygen", ";", " ", "hydrogen">>,
       <<"carbon-dioxide">>, <<"nitrogen">>, <<"oxygen">>, <<"oxygen">> >>

df_1 == DataFrame(fixture_reactants, fixture_products)

\* The first row alone.
df_first_row == DataFrame(<<fixture_reactants[1]>>, <<fixture_products[1]>>)

df_with_steps ==
    DataFrameWithSteps(fixture_reactants, fixture_products, <<2, 1, 3, 7, 4>>)

list_of_tuples == << <<1, 0>>, <<2, 0>>, <<3, 0>>, <<1, 1>>, <<2, 2>> >>

len(df) == Len(df["Reactant"])

\* ------------------------------------------------------------- state
VARIABLES
    pc,                   \* position of the program
    df,                   \* the caller's data frame
    nodes, idx,           \* get_distinct_chemicals: the dictionary, the next index
    cell, tok,            \* get_distinct_chemicals: position in list_of_chemicals
    use_chemical_names, allow_multiple_edges,   \* get_edges: the two flags
    added_edges, edges,   \* get_edges: the dictionary and the set
    row,                  \* get_edges: rows of the zip already processed
    note,                 \* get_edges: the missing weight column was reported
    graph,                \* the assembled networkx graph
    previous,             \* the mapping the call before this one returned, and
                          \* whether a call has filled in the weight column
    analysis,             \* the analysis entry point running, its selector and
                          \* the plots and computations it has made
    my_file,              \* the table as the file holds it
    file_merge, file_compare,   \* main.analyse: the two other files
    option,               \* main.analyse: the analysis asked for
    frames,               \* main.analyse: its data frames df, df_add and
                          \* df_to_compare_to
    calls,                \* main.analyse: the builder calls still to come
    atr_number, tuple_list, counter, pos,      \* count_by
    aspl,                 \* average_shortest_path: what it returned
    largest_connected_component,   \* betwenness_clustering: its nodes
    splits,               \* betwenness_clustering: its parameter k, the number
                          \* of splits asked for
    comp,                 \* the edges girvan_newman has not removed yet
    components,           \* the communities of the split in hand, sorted
    performance,          \* the score calculate_cluster_performance returned
    cluster_performance, best_performance, best_partition,
    colour                \* the colour of the nodes of the pyvis network

vars ==
    <<pc, df, nodes, idx, cell, tok, use_chemical_names, allow_multiple_edges,
      added_edges, edges, row, note, graph, previous, analysis, my_file,
      file_merge, file_compare, option, frames, calls, atr_number, tuple_list,
      counter, pos, aspl, largest_connected_component, splits, comp, components,
      performance, cluster_performance, best_performance, best_partition,
      colour>>

builder_vars ==
    <<df, nodes, idx, cell, tok, use_chemical_names, allow_multiple_edges,
      added_edges, edges, row, note, graph, previous, analysis>>

count_vars == <<atr_number, tuple_list, counter, pos>>

main_vars == <<my_file, file_merge, file_compare, option, frames, calls>>

\* What the functions working on a built graph hold.
metric_vars ==
    <<aspl, largest_connected_component, splits, comp, components, performance,
      cluster_performance, best_performance, best_partition, colour>>

cluster_vars ==
    <<largest_connected_component, splits, comp, components, performance,
      cluster_performance, best_performance, best_partition, colour>>

NoResult == [returned |-> FALSE]

\* A quotient of two integers, in lowest terms: numerator, denominator.
NoScore == <<0, 1>>

\* Outside betwenness_clustering and calculate_cluster_performance.
NoClusters ==
    /\ largest_connected_component = {}
    /\ splits = 0
    /\ comp = {}
    /\ components = <<>>
    /\ performance = NoScore
    /\ cluster_performance = <<>>
    /\ best_performance = NoScore
    /\ best_partition = <<>>
    /\ colour = <<>>

\* A new call of the builder: nothing is held of the graph before.
reset_metrics ==
    /\ aspl' = NoResult
    /\ largest_connected_component' = {}
    /\ splits' = 0
    /\ comp' = {}
    /\ components' = <<>>
    /\ performance' = NoScore
    /\ cluster_performance' = <<>>
    /\ best_performance' = NoScore
    /\ best_partition' = <<>>
    /\ colour' = <<>>

NoGraph == [kind |-> "none", nodes |-> {}, adj |-> {}]

\* An analysis function at the line of its call of the builder, with its
\* selector, the data frame of main.analyse it was handed, and what it has
\* plotted or computed.
Call(fn, selector, line, table) ==
    [fn |-> fn, selector |-> selector, line |-> line, table |-> table, plots |-> <<>>]

NoAnalysis == Call("none", "none", 0, "df")

NoCall == [called |-> FALSE, nodes |-> <<>>, note |-> FALSE]

Range(f) == { f[x] : x \in DOMAIN f }

\* ------------------------------------------- get_distinct_chemicals
list_of_chemicals(d) == d["Reactant"] \o d["Product"]

\* A slip: idx advances on every token, mapped already or not.
visit_chemical_count_tokens(n, i, chemical) ==
    IF strip(chemical) \notin DOMAIN n
    THEN [nodes |-> n @@ (strip(chemical) :> i), idx |-> i + 1]
    ELSE [nodes |-> n, idx |-> i + 1]

\* A slip: the token is used as split, without strip().
visit_chemical_untrimmed(n, i, chemical) ==
    IF chemical \notin DOMAIN n
    THEN [nodes |-> n @@ (chemical :> i), idx |-> i + 1]
    ELSE [nodes |-> n, idx |-> i]

\* The loop body, were names compared without regard to letter case.
visit_chemical_casefold(n, i, chemical) ==
    LET name == [k \in DOMAIN strip(chemical) |->
                     IF strip(chemical)[k] = "A" THEN "a" ELSE strip(chemical)[k]]
    IN  IF name \notin DOMAIN n
        THEN [nodes |-> n @@ (name :> i), idx |-> i + 1]
        ELSE [nodes |-> n, idx |-> i]

\* Lines 70-72: a trimmed name not seen yet takes the next index.
visit_chemical(n, i, chemical) ==
    IF strip(chemical) \notin DOMAIN n
    THEN [nodes |-> n @@ (strip(chemical) :> i), idx |-> i + 1]
    ELSE [nodes |-> n, idx |-> i]

\* Lines 64-66: the empty dictionary, idx = 1, the concatenated column lists.
get_distinct_chemicals ==
    /\ pc = "start"
    /\ pc' = "scan"
    /\ nodes' = <<>>
    /\ idx' = 1
    /\ cell' = 1
    /\ tok' = 1
    /\ UNCHANGED <<df, use_chemical_names, allow_multiple_edges, added_edges,
                   edges, row, note, graph>>
    /\ UNCHANGED <<previous, analysis>>
    /\ UNCHANGED count_vars
    /\ UNCHANGED main_vars
    /\ UNCHANGED metric_vars

\* Lines 67-72: one token of one cell.
scan_chemical ==
    /\ pc = "scan"
    /\ cell <= Len(list_of_chemicals(df))
    /\ LET chemicals == split(list_of_chemicals(df)[cell])
           r == visit_chemical(nodes, idx, chemicals[tok])
       IN  /\ nodes' = r.nodes
           /\ idx' = r.idx
           /\ IF tok < Len(chemicals)
              THEN tok' = tok + 1 /\ cell' = cell
              ELSE tok' = 1 /\ cell' = cell + 1
    /\ UNCHANGED <<pc, df, use_chemical_names, allow_multiple_edges, added_edges,
                   edges, row, note, graph>>
    /\ UNCHANGED <<previous, analysis>>
    /\ UNCHANGED count_vars
    /\ UNCHANGED main_vars
    /\ UNCHANGED metric_vars

\* Line 73.
return_nodes ==
    /\ pc = "scan"
    /\ cell > Len(list_of_chemicals(df))
    /\ pc' = "nodes"
    /\ UNCHANGED builder_vars
    /\ UNCHANGED count_vars
    /\ UNCHANGED main_vars
    /\ UNCHANGED metric_vars

\* --------------------------------------------------------- get_edges
Functions ==
    {"get_edges", "create_weighted_undirected_graph", "create_weighted_directed_graph"}

Keywords == {"use_chemical_names", "allow_multiple_edges"}

\* The default values of the keyword parameters (lines 5, 33 and 76).
defaults(fn) ==
    IF fn = "get_edges"
    THEN [use_chemical_names |-> FALSE, allow_multiple_edges |-> TRUE]
    ELSE [use_chemical_names |-> FALSE, allow_multiple_edges |-> FALSE]

\* A keyword the caller does not pass takes the default of the function called.
argument(fn, kwargs, k) == IF k \in DOMAIN kwargs THEN kwargs[k] ELSE defaults(fn)[k]

\* The call of the builder an analysis function makes at a line of its file.
builder_call(a) ==
    LET directed(kwargs) == [fn |-> "create_weighted_directed_graph", kwargs |-> kwargs]
        undirected(kwargs) == [fn |-> "create_weighted_undirected_graph", kwargs |-> kwargs]
        single == ("allow_multiple_edges" :> FALSE)
        names == ("use_chemical_names" :> TRUE)
    IN  CASE a.fn \in {"graph_fragmentation.analyse", "dataset_comparison.analyse",
                       "create_visualisation_of_combined_datasets"} ->
                 undirected(names)
          [] a.fn \in {"important_molecules.analyse", "central_point_dominance.analyse",
                       "compare_average_shortest_path_length_directed"} ->
                 directed(names @@ single)
          [] a.fn = "calculate_cluster_performance" ->
                 directed(names @@ ("allow_multiple_edges" :> TRUE))
          [] a.fn = "graph_property.analyse" ->
                 IF a.line = 22 THEN directed(names @@ single)
                 ELSE undirected(names @@ single)
          [] a.fn = "kcore_clustering" -> undirected(names @@ single)
          [] a.fn = "betwenness_clustering" ->
                 IF a.line = 79 THEN undirected(names @@ single)
                 ELSE directed(names @@ single)
          [] OTHER -> directed(single)

ones(n) == [i \in 1..n |-> 1]

\* Filling in the weight column, were the frame rebuilt with its rows in the
\* opposite order.
with_steps_reversed(d) ==
    IF STEPS \notin DOMAIN d
    THEN LET n == len(d)
         IN  (STEPS :> ones(n)) @@
             DataFrame([i \in 1..n |-> d["Reactant"][n + 1 - i]],
                       [i \in 1..n |-> d["Product"][n + 1 - i]])
    ELSE d

\* Lines 86-89: a missing weight column is reported (line 87) and filled in
\* with ones, in the caller's data frame.
with_steps(d) == IF STEPS \notin DOMAIN d THEN (STEPS :> ones(len(d))) @@ d ELSE d

\* Line 104: added_edges[(react, product)] = z.
assign_edge(added, k, z) ==
    IF k \in DOMAIN added THEN [added EXCEPT ![k] = z] ELSE added @@ (k :> z)

\* A slip: the last weight of a pair is kept.
record_edge_last(added, k, z) == assign_edge(added, k, z)

\* A slip: the first weight of a pair is kept.
record_edge_first(added, k, z) ==
    IF k \in DOMAIN added THEN added ELSE added @@ (k :> z)

\* A slip: the comparison of line 106 turned round, the larger weight is kept.
record_edge_larger(added, k, z) ==
    IF k \in DOMAIN added /\ added[k] < z
    THEN [added EXCEPT ![k] = z]
    ELSE IF k \notin DOMAIN added THEN added @@ (k :> z) ELSE added

\* Lines 106-109: keep the smaller weight of the pair k.
record_edge(added, k, z) ==
    IF k \in DOMAIN added /\ added[k] > z
    THEN [added EXCEPT ![k] = z]
    ELSE IF k \notin DOMAIN added THEN added @@ (k :> z) ELSE added

\* The inner loop body, were it to skip a pair whose endpoints coincide.
add_edge_no_loops(st, multiple, react, product, z) ==
    IF react = product THEN st
    ELSE IF multiple
    THEN [added_edges |-> assign_edge(st.added_edges, <<react, product>>, z),
          edges |-> st.edges \cup {<<react, product, z>>}]
    ELSE [added_edges |-> record_edge(st.added_edges, <<react, product>>, z),
          edges |-> st.edges]

\* Lines 102-109: the body of the two inner loops.
add_edge(st, multiple, react, product, z) ==
    IF multiple
    THEN [added_edges |-> assign_edge(st.added_edges, <<react, product>>, z),
          edges |-> st.edges \cup {<<react, product, z>>}]
    ELSE [added_edges |-> record_edge(st.added_edges, <<react, product>>, z),
          edges |-> st.edges]

\* Line 101: the products of one reactant, left to right.
RECURSIVE for_products(_, _, _, _, _)
for_products(st, multiple, react, products, z) ==
    IF products = <<>> THEN st
    ELSE for_products(add_edge(st, multiple, react, Head(products), z),
                      multiple, react, Tail(products), z)

\* A slip: only the first reactant of the row is paired with the products.
for_reacts_first_only(st, multiple, reacts, products, z) ==
    IF reacts = <<>> THEN st
    ELSE for_products(st, multiple, Head(reacts), products, z)

\* Line 100: the reactants of the row, left to right.
RECURSIVE for_reacts(_, _, _, _, _)
for_reacts(st, multiple, reacts, products, z) ==
    IF reacts = <<>> THEN st
    ELSE for_reacts(for_products(st, multiple, Head(reacts), products, z),
                    multiple, Tail(reacts), products, z)

\* Lines 94-99: the endpoints of a cell, indices or the tokens as split.
endpoints(n, names, s) ==
    IF names THEN split(s) ELSE [i \in DOMAIN split(s) |-> n[split(s)[i]]]

\* nodes[temp] raises KeyError for a token that is no key of the dictionary.
raises_key_error(n, names, s) ==
    ~names /\ \E i \in DOMAIN split(s) : split(s)[i] \notin DOMAIN n

\* Lines 86-92, entered with the arguments the caller passes to fn: get_edges
\* itself, or one of the two builders, which hand their own two flags on (lines
\* 21 and 47) after get_distinct_chemicals.  A call that leaves a keyword out
\* runs as the call that passes the default, so only the flags are kept.
call_get_edges(fn, kwargs) ==
    /\ pc = "nodes"
    /\ analysis.fn # "none" =>
           fn = builder_call(analysis).fn /\ kwargs = builder_call(analysis).kwargs
    /\ pc' = "edges"
    /\ use_chemical_names' = argument(fn, kwargs, "use_chemical_names")
    /\ allow_multiple_edges' = argument(fn, kwargs, "allow_multiple_edges")
    /\ note' = (STEPS \notin DOMAIN df)
    /\ df' = with_steps(df)
    /\ added_edges' = <<>>
    /\ edges' = {}
    /\ row' = 0
    /\ UNCHANGED <<nodes, idx, cell, tok, graph>>
    /\ UNCHANGED <<previous, analysis>>
    /\ UNCHANGED count_vars
    /\ UNCHANGED main_vars
    /\ UNCHANGED metric_vars

\* Lines 93-109: one row of the zip.
edges_of_row ==
    /\ pc = "edges"
    /\ row < len(df)
    /\ LET x == df["Reactant"][row + 1]
           y == df["Product"][row + 1]
           z == df[STEPS][row + 1]
       IN  IF raises_key_error(nodes, use_chemical_names, x)
              \/ raises_key_error(nodes, use_chemical_names, y)
           THEN /\ pc' = "KeyError"
                /\ UNCHANGED <<added_edges, edges, row>>
           ELSE LET st == for_reacts([added_edges |-> added_edges, edges |-> edges],
                                     allow_multiple_edges,
                                     endpoints(nodes, use_chemical_names, x),
                                     endpoints(nodes, use_chemical_names, y), z)
                IN  /\ added_edges' = st.added_edges
                    /\ edges' = st.edges
                    /\ row' = row + 1
                    /\ pc' = pc
    /\ UNCHANGED <<df, nodes, idx, cell, tok, use_chemical_names,
                   allow_multiple_edges, note, graph>>
    /\ UNCHANGED <<previous, analysis>>
    /\ UNCHANGED count_vars
    /\ UNCHANGED main_vars
    /\ UNCHANGED metric_vars

\* A slip: lines 110-113 left out, the set of line 92 is returned as it is.
collapsed_edges_not_rebuilt(added, multiple, es) == es

\* Lines 110-113: without multiple edges the set is rebuilt from the dictionary.
collapsed_edges(added, multiple, es) ==
    IF multiple THEN es ELSE { <<k[1], k[2], added[k]>> : k \in DOMAIN added }

\* Lines 76-114 as a function of the arguments: what a call returns, or that
\* it raises KeyError.
get_edges(d, n, names, multiple) ==
    LET t == with_steps(d)
        loop[i \in 0..len(t)] ==
            IF i = 0 THEN [raised |-> FALSE, added_edges |-> <<>>, edges |-> {}]
            ELSE LET st == loop[i - 1]
                     x == t["Reactant"][i]
                     y == t["Product"][i]
                 IN  IF st.raised \/ raises_key_error(n, names, x)
                                  \/ raises_key_error(n, names, y)
                     THEN [st EXCEPT !.raised = TRUE]
                     ELSE LET r == for_reacts([added_edges |-> st.added_edges,
                                               edges |-> st.edges],
                                              multiple, endpoints(n, names, x),
                                              endpoints(n, names, y), t[STEPS][i])
                          IN  [raised |-> FALSE, added_edges |-> r.added_edges,
                               edges |-> r.edges]
        end == loop[len(t)]
    IN  [raised |-> end.raised,
         edges |-> IF end.raised THEN {}
                   ELSE collapsed_edges(end.added_edges, multiple, end.edges)]

\* Line 114.
return_edges ==
    /\ pc = "edges"
    /\ row = len(df)
    /\ edges' = collapsed_edges(added_edges, allow_multiple_edges, edges)
    /\ pc' = "edges_done"
    /\ UNCHANGED <<df, nodes, idx, cell, tok, use_chemical_names,
                   allow_multiple_edges, added_edges, row, note, graph>>
    /\ UNCHANGED <<previous, analysis>>
    /\ UNCHANGED count_vars
    /\ UNCHANGED main_vars
    /\ UNCHANGED metric_vars


\* ---------------------------------------------------- graph assembly
\* add_nodes_from: the indices, or the names, of the dictionary (lines 25-28,
\* 50-53).
graph_nodes(n, names) == IF names THEN DOMAIN n ELSE Range(n)

\* networkx adds the endpoints of an edge that are not nodes yet.
endpoints_of(es) == { e[1] : e \in es } \cup { e[2] : e \in es }

unordered(e) == {e[1], e[2]}

\* A slip: the weight stored between the two nodes is kept beside the new one.
graph_add_edge_keep(adj, e) == adj \cup {e, <<e[2], e[1], e[3]>>}

\* Graph.add_edge: the weight of u-v is stored under adj[u][v] and adj[v][u]
\* and replaces the one stored there.
graph_add_edge(adj, e) ==
    { a \in adj : unordered(a) # unordered(e) } \cup {e, <<e[2], e[1], e[3]>>}

RECURSIVE graph_add_weighted_edges_from(_, _)
graph_add_weighted_edges_from(adj, es) ==
    IF es = {} THEN adj
    ELSE LET e == CHOOSE x \in es : TRUE
         IN  graph_add_weighted_edges_from(graph_add_edge(adj, e), es \ {e})

\* A slip: a second edge u -> v is not added (a simple directed graph).
multi_add_edge_per_pair(adj, e) ==
    IF \E a \in BagToSet(adj) : a[1] = e[1] /\ a[2] = e[2]
    THEN adj ELSE adj (+) SetToBag({e})

\* MultiDiGraph.add_edge: one more parallel edge u -> v (its key is not
\* modelled).
multi_add_edge(adj, e) == adj (+) SetToBag({e})

RECURSIVE multi_add_weighted_edges_from(_, _)
multi_add_weighted_edges_from(adj, es) ==
    IF es = {} THEN adj
    ELSE LET e == CHOOSE x \in es : TRUE
         IN  multi_add_weighted_edges_from(multi_add_edge(adj, e), es \ {e})

\* The edges of es between the same two nodes, as sets of edges.
groups(es) == { { e \in es : unordered(e) = unordered(f) } : f \in es }

\* The sets holding one edge of every group: a set is iterated in an order the
\* language does not fix, and any edge of a group can be the last one added.
RECURSIVE one_of_each(_)
one_of_each(gs) ==
    IF gs = {} THEN {{}}
    ELSE LET g == CHOOSE x \in gs : TRUE
         IN  { l \cup {e} : l \in one_of_each(gs \ {g}), e \in g }

\* Lines 24-30: nx.Graph(), add_nodes_from, add_weighted_edges_from.  The edges
\* in last are added after all the others, which leaves every outcome an
\* iteration order of the set can give.
build_graph ==
    /\ pc = "edges_done"
    /\ analysis.fn # "none" =>
           builder_call(analysis).fn = "create_weighted_undirected_graph"
    /\ \E last \in one_of_each(groups(edges)) :
           graph' = [kind |-> "Graph",
                     nodes |-> graph_nodes(nodes, use_chemical_names)
                                   \cup endpoints_of(edges),
                     adj |-> graph_add_weighted_edges_from(
                                 graph_add_weighted_edges_from({}, edges \ last),
                                 last)]
    /\ pc' = "done"
    /\ UNCHANGED <<df, nodes, idx, cell, tok, use_chemical_names,
                   allow_multiple_edges, added_edges, edges, row, note>>
    /\ UNCHANGED <<previous, analysis>>
    /\ UNCHANGED count_vars
    /\ UNCHANGED main_vars
    /\ UNCHANGED metric_vars

\* Lines 49-55: nx.MultiDiGraph(), add_nodes_from, add_weighted_edges_from.
build_multi_di_graph ==
    /\ pc = "edges_done"
    /\ analysis.fn # "none" =>
           builder_call(analysis).fn = "create_weighted_directed_graph"
    /\ graph' = [kind |-> "MultiDiGraph",
                 nodes |-> graph_nodes(nodes, use_chemical_names)
                               \cup endpoints_of(edges),
                 adj |-> multi_add_weighted_edges_from(EmptyBag, edges)]
    /\ pc' = "done"
    /\ UNCHANGED <<df, nodes, idx, cell, tok, use_chemical_names,
                   allow_multiple_edges, added_edges, edges, row, note>>
    /\ UNCHANGED <<previous, analysis>>
    /\ UNCHANGED count_vars
    /\ UNCHANGED main_vars
    /\ UNCHANGED metric_vars

\* The call is over (a result or a KeyError); the caller keeps its data frame
\* for the next analysis.
next_call ==
    /\ pc \in {"nodes", "edges_done", "done", "KeyError"}
    /\ analysis.fn = "none"
    /\ pc' = "start"
    /\ previous' = [called |-> TRUE, nodes |-> nodes, note |-> previous.note \/ note]
    /\ UNCHANGED analysis
    /\ nodes' = <<>>
    /\ idx' = 0
    /\ cell' = 0
    /\ tok' = 0
    /\ use_chemical_names' = FALSE
    /\ allow_multiple_edges' = FALSE
    /\ added_edges' = <<>>
    /\ edges' = {}
    /\ row' = 0
    /\ note' = FALSE
    /\ graph' = NoGraph
    /\ UNCHANGED df
    /\ UNCHANGED count_vars
    /\ UNCHANGED main_vars
    /\ UNCHANGED metric_vars

\* ------------------------------------------------------ graph_property
\* numpy.inf, the distance where there is no path (graph_property.py line 5):
\* a value no sum of weights takes.
inf == -1

\* The stored edges of a graph, parallel ones once.
adjacency(g) == IF g.kind = "MultiDiGraph" THEN BagToSet(g.adj) ELSE g.adj

plus(a, b) == IF a = inf \/ b = inf THEN inf ELSE a + b

minimum(a, b) == IF a = inf THEN b ELSE IF b = inf THEN a ELSE IF a <= b THEN a ELSE b

\* The matrix floyd_warshall_numpy starts from: 0 on the diagonal, the weight
\* of the lightest edge u -> v, inf where there is none.
to_numpy_array(g) ==
    [p \in g.nodes \X g.nodes |->
        LET ws == { e[3] : e \in { a \in adjacency(g) : a[1] = p[1] /\ a[2] = p[2] } }
        IN  IF p[1] = p[2] THEN 0
            ELSE IF ws = {} THEN inf
            ELSE CHOOSE w \in ws : \A v \in ws : w <= v]

\* One pass of Floyd-Warshall for every node of through (each pass works on
\* the whole matrix of the pass before).
RECURSIVE relax(_, _)
relax(A, through) ==
    IF through = {} THEN A
    ELSE LET k == CHOOSE n \in through : TRUE
             B == [p \in DOMAIN A |->
                      minimum(A[p], plus(A[<<p[1], k>>], A[<<k, p[2]>>]))]
         IN  IF B = A THEN relax(A, through \ {k}) ELSE relax(B, through \ {k})

\* Line 65: nx.floyd_warshall_numpy(graph).
floyd_warshall_numpy(g) == relax(to_numpy_array(g), g.nodes)

\* Lines 66-73: the finite distances between two different nodes, by pair, and
\* the largest of them.
distances(g) ==
    LET distance == floyd_warshall_numpy(g)
    IN  [p \in { q \in g.nodes \X g.nodes : q[1] # q[2] /\ distance[q] # inf }
            |-> distance[p]]

max_length(d) ==
    IF DOMAIN d = {} THEN 0 ELSE CHOOSE m \in Range(d) : \A v \in Range(d) : v <= m

\* Lines 79 and 86: range(1, max_length).
lengths(max) == 1..(max - 1)

\* Lines 74-90.  A quotient is the pair of its numerator and its denominator.
\* Dividing by num = 0 (lines 87 and 89) raises ZeroDivisionError.
shortest_path_lengths(g) ==
    LET d == distances(g)
        Counter == [i \in lengths(max_length(d)) |->
                        Cardinality({ p \in DOMAIN d : d[p] = i })]
        n == Cardinality(DOMAIN Counter)
        sums[i \in 0..n] ==
            IF i = 0 THEN [num |-> 0, avg |-> 0]
            ELSE [num |-> sums[i - 1].num + Counter[i],
                  avg |-> sums[i - 1].avg + Counter[i] * i]
        num == sums[n].num
    IN  IF num = 0 THEN [raised |-> TRUE]
        ELSE [raised |-> FALSE,
              x |-> [i \in 1..n |-> i],
              y |-> [i \in 1..n |-> <<Counter[i], num>>],
              avg |-> <<sums[n].avg, num>>]

\* The callers of average_shortest_path on the graph the builder returned:
\* graph_property.analyse (lines 22-25) and
\* compare_average_shortest_path_length_directed (lines 126-128).
calls_average_shortest_path(a) ==
    \/ a.fn = "graph_property.analyse" /\ a.line = 22
    \/ a.fn = "compare_average_shortest_path_length_directed"

\* Lines 51-90, on the graph a builder has returned, called on it directly or
\* by one of the analyses.  The null graph is left out.
average_shortest_path ==
    /\ pc = "done"
    /\ graph.nodes # {}
    /\ analysis.fn = "none" \/ calls_average_shortest_path(analysis)
    /\ LET r == shortest_path_lengths(graph)
       IN  IF r.raised
           THEN /\ pc' = "ZeroDivisionError"
                /\ UNCHANGED <<aspl, analysis>>
           ELSE /\ aspl' = [returned |-> TRUE, x |-> r.x, y |-> r.y, avg |-> r.avg]
                /\ IF analysis.fn = "none"
                   THEN pc' = "average_shortest_path" /\ UNCHANGED analysis
                   ELSE /\ pc' = "analysed"
                        /\ analysis' = [analysis EXCEPT !.plots = << <<analysis.fn, "">> >>]
    /\ UNCHANGED <<df, nodes, idx, cell, tok, use_chemical_names,
                   allow_multiple_edges, added_edges, edges, row, note, graph,
                   previous>>
    /\ UNCHANGED count_vars
    /\ UNCHANGED main_vars
    /\ UNCHANGED cluster_vars


\* ------------------------------------------------------ graph_clusters
\* Lines 11-25.
COLOURS ==
    << "#ff8c00", "#ffff00", "#00ff00", "#008000", "#00ffff", "#ff00ff", "#2f4f4f",
       "#ff69b4", "#7f0000", "#00008b", "#1e90ff", "#ffdead", "gray" >>

\* The values of k: 100 from graph_clusters.analyse (line 31), the default 8
\* (line 66), and two values a small graph has more splits than.
Ks == {1, 2, 8, 100}

RECURSIVE gcd(_, _)
gcd(a, b) == IF b = 0 THEN a ELSE gcd(b, a % b)

\* The quotient n / d for d > 0, in lowest terms.
quotient(n, d) ==
    LET c == gcd(IF n < 0 THEN -n ELSE n, d)
    IN  IF n = 0 THEN <<0, 1>> ELSE <<n \div c, d \div c>>

add(p, q) == quotient(p[1] * q[2] + q[1] * p[2], p[2] * q[2])

\* A slip: >= where line 101 has >.
greater_or_equal(p, q) == p[1] * q[2] >= q[1] * p[2]

\* Line 101: performance > best_performance.
greater(p, q) == p[1] * q[2] > q[1] * p[2]

\* The nodes a path of undirected edges leads to from those of seen.
RECURSIVE reach(_, _)
reach(seen, es) ==
    LET more == seen \cup UNION { e \in es : e \cap seen # {} }
    IN  IF more = seen THEN seen ELSE reach(more, es)

\* nx.connected_components.
connected_components(ns, es) == { reach({n}, es) : n \in ns }

\* The edges as the undirected graph has them, self-loops left out.
undirected_edges(g) == { {e[1], e[2]} : e \in { a \in adjacency(g) : a[1] # a[2] } }

\* A slip: the graph is not cut down to the component.
subgraph_not_taken(g, ns) == g

\* Graph.subgraph: the nodes of ns and the edges between them.
subgraph(g, ns) ==
    LET inside == { e \in adjacency(g) : e[1] \in ns /\ e[2] \in ns }
    IN  [kind |-> g.kind,
         nodes |-> g.nodes \cap ns,
         adj |-> IF g.kind = "MultiDiGraph" THEN [e \in inside |-> g.adj[e]] ELSE inside]

\* graph.edges(): how many edges, parallel ones each counted, are in es.
number_of_edges(g, es) ==
    IF g.kind = "MultiDiGraph" THEN BagCardinality([e \in es |-> g.adj[e]])
    ELSE Cardinality({ {e[1], e[2]} : e \in es })

\* Lines 167-174: the community of a node; of two communities holding it the
\* later one.
node_community(communities) ==
    [n \in UNION Range(communities) |->
        CHOOSE i \in DOMAIN communities :
            /\ n \in communities[i]
            /\ \A j \in DOMAIN communities : n \in communities[j] => j <= i]

\* A slip: an edge between two communities is counted for the first one only.
inter_edges_source_only(communities, g, i) ==
    LET of == node_community(communities)
    IN  number_of_edges(g, { e \in adjacency(g) :
                                 of[e[1]] # of[e[2]] /\ of[e[1]] = i })

\* Lines 176-183, for nodes that all have a community.
intra_edges(communities, g, i) ==
    LET of == node_community(communities)
    IN  number_of_edges(g, { e \in adjacency(g) : of[e[1]] = i /\ of[e[2]] = i })

inter_edges(communities, g, i) ==
    LET of == node_community(communities)
    IN  number_of_edges(g, { e \in adjacency(g) :
                                 of[e[1]] # of[e[2]] /\ i \in {of[e[1]], of[e[2]]} })

\* Lines 153-191.  node_community[e[0]] raises KeyError for a node of no
\* community, the divisions of lines 187 and 189 raise ZeroDivisionError.
calculate_cluster_performance(communities, g) ==
    LET n == Len(communities)
        assigned == UNION Range(communities)
        rating[i \in 0..n] ==
            IF i = 0 THEN <<0, 1>>
            ELSE add(rating[i - 1],
                     quotient(2 * intra_edges(communities, g, i),
                              inter_edges(communities, g, i)))
    IN  IF n = 1 THEN [raised |-> "none", result |-> <<-1, 1>>]
        ELSE IF \E e \in adjacency(g) : e[1] \notin assigned \/ e[2] \notin assigned
        THEN [raised |-> "KeyError"]
        ELSE IF n = 0 \/ \E i \in 1..n : inter_edges(communities, g, i) = 0
        THEN [raised |-> "ZeroDivisionError"]
        ELSE [raised |-> "none",
              result |-> quotient(rating[n][1], rating[n][2] * n)]

\* The lists that hold each member of part once.
RECURSIVE orderings(_)
orderings(part) ==
    IF part = {} THEN {<<>>}
    ELSE UNION { { <<c>> \o q : q \in orderings(part \ {c}) } : c \in part }

\* Where a node stands in the graph: add_nodes_from takes the mapping's keys in
\* the order they were inserted, the nodes only an edge names come after.
position(n) == IF n \in DOMAIN nodes THEN nodes[n] ELSE idx

\* Line 97: the communities as a list, the larger ones first.  sorted is
\* stable: communities of one size stay in the order connected_components
\* yields them, that of their first nodes in the graph.
sorted(communities) ==
    LET first(c) == CHOOSE p \in { position(n) : n \in c } :
                        \A n \in c : p <= position(n)
    IN  { q \in orderings(communities) :
              \A i, j \in DOMAIN q :
                  i < j => \/ Cardinality(q[i]) > Cardinality(q[j])
                           \/ /\ Cardinality(q[i]) = Cardinality(q[j])
                              /\ first(q[i]) <= first(q[j]) }

\* The lists of communities a caller can hand to calculate_cluster_performance
\* for the nodes ns: the nodes split into one or more communities, in any order.
RECURSIVE partitions(_)
partitions(ns) ==
    IF ns = {} THEN {{}}
    ELSE LET n == CHOOSE x \in ns : TRUE
         IN  UNION { { {block \cup {n}} \cup rest : rest \in partitions(ns \ (block \cup {n})) }
                     : block \in SUBSET (ns \ {n}) }

lists_of_communities(ns) == UNION { orderings(part) : part \in partitions(ns) \ {{}} }

\* A call of calculate_cluster_performance on the directed graph of a table
\* and a list of communities of its nodes.
cluster_performance_call ==
    /\ pc = "done"
    /\ analysis.fn = "calculate_cluster_performance"
    /\ \E communities \in lists_of_communities(graph.nodes) :
           LET r == calculate_cluster_performance(communities, graph)
           IN  /\ components' = communities
               /\ IF r.raised # "none"
                  THEN pc' = r.raised /\ UNCHANGED performance
                  ELSE pc' = "performance" /\ performance' = r.result
    /\ UNCHANGED <<df, nodes, idx, cell, tok, use_chemical_names,
                   allow_multiple_edges, added_edges, edges, row, note, graph,
                   previous, analysis>>
    /\ UNCHANGED <<aspl, largest_connected_component, splits, comp,
                   cluster_performance, best_performance, best_partition, colour>>
    /\ UNCHANGED count_vars
    /\ UNCHANGED main_vars


\* Line 80: max(nx.connected_components(graph_lcc), key=len), of several
\* largest components whichever comes first; max of no component raises
\* ValueError.  Then line 83, the second call of the builder on the same table.
largest_component ==
    /\ pc = "done"
    /\ analysis.fn = "betwenness_clustering"
    /\ analysis.line = 79
    /\ LET cs == connected_components(graph.nodes, undirected_edges(graph))
       IN  IF cs = {}
           THEN /\ pc' = "ValueError"
                /\ UNCHANGED <<nodes, idx, cell, tok, use_chemical_names,
                               allow_multiple_edges, added_edges, edges, row, note,
                               graph, previous, analysis,
                               largest_connected_component>>
           ELSE /\ \E c \in { d \in cs : \A e \in cs : Cardinality(e) <= Cardinality(d) } :
                       largest_connected_component' = c
                /\ pc' = "start"
                /\ analysis' = Call(analysis.fn, analysis.selector, 83, analysis.table)
                /\ previous' = [called |-> TRUE, nodes |-> nodes,
                                note |-> previous.note \/ note]
                /\ nodes' = <<>>
                /\ idx' = 0
                /\ cell' = 0
                /\ tok' = 0
                /\ use_chemical_names' = FALSE
                /\ allow_multiple_edges' = FALSE
                /\ added_edges' = <<>>
                /\ edges' = {}
                /\ row' = 0
                /\ note' = FALSE
                /\ graph' = NoGraph
    /\ UNCHANGED <<df, aspl, splits, comp, components, performance,
                   cluster_performance, best_performance, best_partition, colour>>
    /\ UNCHANGED count_vars
    /\ UNCHANGED main_vars

\* Lines 84-95: the directed graph is cut down to the component, girvan_newman
\* takes an undirected copy of it without self-loops, and the loop starts with
\* k splits to go: 100 from graph_clusters.analyse, any value from another
\* caller.
girvan_newman ==
    /\ pc = "done"
    /\ analysis.fn = "betwenness_clustering"
    /\ analysis.line = 83
    /\ graph' = subgraph(graph, largest_connected_component)
    /\ comp' = undirected_edges(subgraph(graph, largest_connected_component))
    /\ splits' \in IF option = "graph_clusters" THEN {100} ELSE Ks
    /\ cluster_performance' = <<>>
    /\ best_performance' = <<0, 1>>
    /\ best_partition' = <<>>
    /\ pc' = "comp"
    /\ UNCHANGED <<df, nodes, idx, cell, tok, use_chemical_names,
                   allow_multiple_edges, added_edges, edges, row, note,
                   previous, analysis>>
    /\ UNCHANGED <<aspl, largest_connected_component, components, performance,
                   colour>>
    /\ UNCHANGED count_vars
    /\ UNCHANGED main_vars

\* The sets of edges one step of girvan_newman can remove from es: edges are
\* removed one after the other, the edge of highest betweenness first, until
\* one component has fallen into two; which edge that is, is left open.  The
\* edges removed on the way inside a component leave it connected and do not
\* change what the partitions are, so only the edges between the two new
\* components are taken out.
removals(ns, es) ==
    LET connected(A) == reach({CHOOSE n \in A : TRUE}, { e \in es : e \subseteq A }) = A
    IN  { { e \in es : e \cap A # {} /\ e \cap (C \ A) # {} } :
              <<C, A>> \in { ca \in connected_components(ns, es) \X SUBSET ns :
                                 /\ ca[2] # {}
                                 /\ ca[2] \subseteq ca[1]
                                 /\ ca[2] # ca[1]
                                 /\ connected(ca[2])
                                 /\ connected(ca[1] \ ca[2]) } }

\* Lines 96-103: one turn of the loop over itertools.islice(comp, k).
betwenness_loop ==
    /\ pc = "comp"
    /\ Len(cluster_performance) < splits
    /\ comp # {}
    /\ \E R \in removals(graph.nodes, comp) :
           \E cs \in sorted(connected_components(graph.nodes, comp \ R)) :
               LET r == calculate_cluster_performance(cs, graph)
               IN  /\ comp' = comp \ R
                   /\ components' = cs
                   /\ IF r.raised # "none"
                      THEN /\ pc' = r.raised
                           /\ UNCHANGED <<performance, cluster_performance,
                                          best_performance, best_partition>>
                      ELSE /\ pc' = pc
                           /\ performance' = r.result
                           /\ cluster_performance' = Append(cluster_performance, r.result)
                           /\ IF greater(r.result, best_performance)
                              THEN /\ best_performance' = r.result
                                   /\ best_partition' = cs
                              ELSE UNCHANGED <<best_performance, best_partition>>
    /\ UNCHANGED <<df, nodes, idx, cell, tok, use_chemical_names,
                   allow_multiple_edges, added_edges, edges, row, note, graph,
                   previous, analysis>>
    /\ UNCHANGED <<aspl, largest_connected_component, splits, colour>>
    /\ UNCHANGED count_vars
    /\ UNCHANGED main_vars

\* Lines 141-144: COLOURS[-1] or COLOURS[component_number], counted from 0;
\* an index beyond the list raises IndexError.
palette(component_number, number) ==
    IF component_number >= number THEN COLOURS[Len(COLOURS)]
    ELSE IF component_number < Len(COLOURS) THEN COLOURS[component_number + 1]
    ELSE "IndexError"

\* Lines 105-122 and 125-150: the loop is over, after k splits or when no edge
\* is left; every node of the best partition is coloured by its component.
create_html_visualisation ==
    /\ pc = "comp"
    /\ Len(cluster_performance) >= splits \/ comp = {}
    /\ LET painted == [n \in UNION Range(best_partition) |->
                          palette((CHOOSE i \in DOMAIN best_partition :
                                       n \in best_partition[i]) - 1, splits)]
       IN  IF "IndexError" \in Range(painted)
           THEN pc' = "IndexError" /\ UNCHANGED <<colour, analysis>>
           ELSE /\ colour' = painted
                /\ pc' = IF option = "none" THEN "visualised" ELSE "analysed"
                /\ analysis' = [analysis EXCEPT !.plots = << <<analysis.fn, "">> >>]
    /\ UNCHANGED <<df, nodes, idx, cell, tok, use_chemical_names,
                   allow_multiple_edges, added_edges, edges, row, note, graph,
                   previous>>
    /\ UNCHANGED <<aspl, largest_connected_component, splits, comp, components,
                   performance, cluster_performance, best_performance,
                   best_partition>>
    /\ UNCHANGED count_vars
    /\ UNCHANGED main_vars


\* ------------------------------------------- analysis entry points
\* degree_distribution.py and degree_correlation.py: the functions that take a
\* plot type or a degree type.
PlotTypes ==
    {"bar", "scatter", "exponent", "scatter_comparison_plot",
     "distribution_comparison_plot"}

DegreeTypes == {"out", "in"}

ComparisonPlots ==
    {"create_comparison_scatter_plot_option1",
     "create_comparison_scatter_plot_option2", "create_pdf_comparison"}

EntryPoints ==
    {"degree_distribution.analyse", "degree_correlation.analyse"} \cup ComparisonPlots

\* The values the docstring of fn gives for its selector.
Documented(fn) == IF fn = "degree_distribution.analyse" THEN PlotTypes ELSE DegreeTypes

\* The values a caller passes: the documented ones, "in+out", and "other" for
\* any other string.
Selectors(fn) == Documented(fn) \cup {"in+out", "other"}

\* degree_distribution.py lines 209-218, 243-254, 276-289: "out", "in", else
\* raise Exception("Invalid option provided").
comparison_plot(fn, degree) ==
    IF degree \in {"out", "in"}
    THEN [raised |-> FALSE, plots |-> << <<fn, degree>> >>]
    ELSE [raised |-> TRUE, plots |-> <<>>]

\* degree_distribution.py lines 29-46: the if/elif chain of analyse; it ends
\* without an else.
plots_of(plot_type) ==
    CASE plot_type = "bar" -> << <<"create_bar_plot", "">> >>
      [] plot_type = "scatter" -> << <<"create_scatter_plot", "">> >>
      [] plot_type = "exponent" ->
             << <<"find_exponent", "total">>, <<"find_exponent", "in">>,
                <<"find_exponent", "out">> >>
      [] plot_type = "scatter_comparison_plot" ->
             comparison_plot("create_comparison_scatter_plot_option1", "out").plots
                 \o comparison_plot("create_comparison_scatter_plot_option1", "in").plots
      [] plot_type = "distribution_comparison_plot" ->
             comparison_plot("create_pdf_comparison", "out").plots
                 \o comparison_plot("create_pdf_comparison", "in").plots
                 \o << <<"create_pdf_comparison_in_out", "">> >>
      [] OTHER -> <<>>

\* degree_distribution.analyse, after the graph of line 28.
degree_distribution_analyse ==
    /\ pc = "done"
    /\ analysis.fn = "degree_distribution.analyse"
    /\ analysis' = [analysis EXCEPT !.plots = plots_of(analysis.selector)]
    /\ pc' = "analysed"
    /\ UNCHANGED <<df, nodes, idx, cell, tok, use_chemical_names,
                   allow_multiple_edges, added_edges, edges, row, note, graph,
                   previous>>
    /\ UNCHANGED count_vars
    /\ UNCHANGED main_vars
    /\ UNCHANGED metric_vars

\* One of the three comparison plots, on a graph built as analyse builds it.
create_comparison_plot ==
    /\ pc = "done"
    /\ analysis.fn \in ComparisonPlots
    /\ LET r == comparison_plot(analysis.fn, analysis.selector)
       IN  /\ analysis' = [analysis EXCEPT !.plots = r.plots]
           /\ pc' = IF r.raised THEN "Exception" ELSE "analysed"
    /\ UNCHANGED <<df, nodes, idx, cell, tok, use_chemical_names,
                   allow_multiple_edges, added_edges, edges, row, note, graph,
                   previous>>
    /\ UNCHANGED count_vars
    /\ UNCHANGED main_vars
    /\ UNCHANGED metric_vars

\* degree_correlation.analyse, after the graph of line 14: line 15 hands the
\* degree type to nx.average_degree_connectivity, which for a directed graph
\* raises NetworkXError unless source and target are "in", "out" or "in+out";
\* line 16 plots the result.
degree_correlation_analyse ==
    /\ pc = "done"
    /\ analysis.fn = "degree_correlation.analyse"
    /\ IF analysis.selector \in {"in", "out", "in+out"}
       THEN /\ analysis' = [analysis EXCEPT
                                !.plots = << <<"plot_correlation", analysis.selector>> >>]
            /\ pc' = "analysed"
       ELSE /\ pc' = "NetworkXError"
            /\ UNCHANGED analysis
    /\ UNCHANGED <<df, nodes, idx, cell, tok, use_chemical_names,
                   allow_multiple_edges, added_edges, edges, row, note, graph,
                   previous>>
    /\ UNCHANGED count_vars
    /\ UNCHANGED main_vars
    /\ UNCHANGED metric_vars

\* ---------------------------------------------------------- count_by
Tuples == (0..MaxValue) \X (0..MaxValue)

\* The positions asked for: those of a pair and the one after them.
AttributeNumbers == {0, 1, 2}

TupleLists == UNION { [1..n -> Tuples] : n \in 0..MaxTuples } \cup {list_of_tuples}

\* An insertion-ordered dictionary: its keys in order and their values.
EmptyDict == [keys |-> <<>>, val |-> <<>>]

\* A slip: a value seen again starts over at 1.
count_element_reset(c, x) ==
    IF x \in DOMAIN c.val
    THEN [c EXCEPT !.val[x] = 1]
    ELSE [keys |-> Append(c.keys, x), val |-> c.val @@ (x :> 1)]

\* Lines 129-132.
count_element(c, x) ==
    IF x \in DOMAIN c.val
    THEN [c EXCEPT !.val[x] = c.val[x] + 1]
    ELSE [keys |-> Append(c.keys, x), val |-> c.val @@ (x :> 1)]

\* Line 126: element[atr_number], positions counted from 0.
only_attributes(atr, tl) == [i \in DOMAIN tl |-> tl[i][atr + 1]]

\* An index check, were it made against the width of a pair whatever the list
\* holds.
index_error_eager(atr, tl) == atr + 1 > 2

\* Line 126: element[atr_number] raises IndexError for an element that has no
\* such position.
index_error(atr, tl) == \E i \in DOMAIN tl : atr + 1 > Len(tl[i])

\* Line 126, raising.
count_by_index_error ==
    /\ pc = "count_by"
    /\ pos = 0
    /\ index_error(atr_number, tuple_list)
    /\ pc' = "IndexError"
    /\ UNCHANGED count_vars
    /\ UNCHANGED builder_vars
    /\ UNCHANGED main_vars
    /\ UNCHANGED metric_vars

\* Lines 128-132: one element of only_attributes.
count_by_step ==
    /\ pc = "count_by"
    /\ ~index_error(atr_number, tuple_list)
    /\ pos < Len(tuple_list)
    /\ counter' = count_element(counter, only_attributes(atr_number, tuple_list)[pos + 1])
    /\ pos' = pos + 1
    /\ UNCHANGED <<pc, atr_number, tuple_list>>
    /\ UNCHANGED builder_vars
    /\ UNCHANGED main_vars
    /\ UNCHANGED metric_vars

\* Lines 133-135: the keys and the values of the dictionary.
count_by_return ==
    /\ pc = "count_by"
    /\ ~index_error(atr_number, tuple_list)
    /\ pos = Len(tuple_list)
    /\ pc' = "counted"
    /\ UNCHANGED count_vars
    /\ UNCHANGED builder_vars
    /\ UNCHANGED main_vars
    /\ UNCHANGED metric_vars

\* counter.keys() and counter.values() as returned (x, y).
count_by_x == counter.keys

count_by_y == [i \in DOMAIN counter.keys |-> counter.val[counter.keys[i]]]

\* ------------------------------------------- files and preprocessing
\* A cell pandas read as missing (NaN, a float): the one cell that is no str.
NaN == <<"NaN">>

\* A missing "Number of Reaction Steps".
nan == 0

\* The rows the files are drawn from: "A" -> "B; a" with weight 1, a row
\* without reactant, a row without product, and "a" -> "a" without weight.
FileRows ==
    { << <<"A">>, <<"B", ";", " ", "a">>, 1 >>,
      << NaN, <<"a">>, 1 >>,
      << <<"b">>, NaN, 1 >>,
      << <<"a">>, <<"a">>, nan >> }

Files ==
    UNION { { DataFrameWithSteps(Column(rows, 1), Column(rows, 2), Column(rows, 3)) :
                  rows \in [1..n -> FileRows] }
            : n \in 0..MaxRows }

NoFile == DataFrame(<<>>, <<>>)

\* str.lower(), character by character; of the characters of the tables only
\* "A" and "B" have a lowercase form other than themselves ("NaN" is the
\* text of a missing cell, were it formatted as a string).
lower_char(c) ==
    CASE c = "A" -> "a"
      [] c = "B" -> "b"
      [] c = "NaN" -> "nan"
      [] OTHER -> c

lower(x) == [i \in DOMAIN x |-> lower_char(x[i])]

isinstance_str(x) == x # NaN

\* The lambda, were it to format every cell as a string first.
lowercase_cell_any(x) == lower(x)

\* preprocess.py lines 17-18: lambda x: x.lower() if isinstance(x, str) else x
lowercase_cell(x) == IF isinstance_str(x) THEN lower(x) ELSE x

\* preprocess.py lines 11-18, on the caller's data frame.
step1_lowercase(d) ==
    [d EXCEPT !["Reactant"] = [i \in DOMAIN @ |-> lowercase_cell(@[i])],
              !["Product"] = [i \in DOMAIN @ |-> lowercase_cell(@[i])]]

\* preprocess.py lines 1-8; called on a table it has already been applied to
\* as well.
preprocess ==
    /\ pc \in {"preprocess", "preprocessed"}
    /\ df' = step1_lowercase(df)
    /\ pc' = IF pc = "preprocess" THEN "preprocessed" ELSE "preprocessed again"
    /\ UNCHANGED <<nodes, idx, cell, tok, use_chemical_names, allow_multiple_edges,
                   added_edges, edges, row, note, graph, previous, analysis>>
    /\ UNCHANGED count_vars
    /\ UNCHANGED main_vars
    /\ UNCHANGED metric_vars

\* ------------------------------------------------------ main.analyse
Options ==
    {"merge_and_graph_fragmentation", "graph_fragmentation", "important_molecules",
     "degree_distribution", "graph_property", "graph_clusters", "degree_correlation",
     "central_point_dominance", "dataset_comparison"}

weighted_data ==
    {"important_molecules", "degree_distribution", "graph_property", "graph_clusters",
     "degree_correlation", "central_point_dominance"}

\* main.py lines 20-35 with columns = None, the default.
create_columns(o) ==
    IF o \in weighted_data THEN {"Reactant", "Product", STEPS} ELSE {"Reactant", "Product"}

isna(c, x) == IF c = STEPS THEN x = nan ELSE x = NaN

\* Reading the columns, were the rows with a missing value kept.
read_columns_keep_na(file, columns) == [c \in columns |-> file[c]]

\* read_from_file.py lines 12-13: the columns asked for, then dropna(): the
\* rows with no missing value among them, in the order of the file.
read_columns(file, columns) ==
    LET kept == SelectSeq([i \in 1..len(file) |-> i],
                          LAMBDA i : \A c \in columns : ~isna(c, file[c][i]))
    IN  [c \in columns |-> [k \in DOMAIN kept |-> file[c][kept[k]]]]

\* pandas.concat([a, b], axis="rows"): the rows of a, then those of b; a column
\* one of the two lacks is missing in its rows.
concat(a, b) ==
    LET column(d, c) ==
            IF c \in DOMAIN d THEN d[c]
            ELSE [i \in 1..len(d) |-> IF c = STEPS THEN nan ELSE NaN]
    IN  [c \in DOMAIN a \cup DOMAIN b |-> column(a, c) \o column(b, c)]

NoFrames == [df |-> NoFile, df_add |-> NoFile, df_to_compare_to |-> NoFile]

\* main.py lines 78-104: the analysis of each option, as the calls of the
\* builder it makes, in order.
calls_of(o) ==
    CASE o \in {"merge_and_graph_fragmentation", "graph_fragmentation"} ->
             << Call("graph_fragmentation.analyse", "", 19, "df") >>
      [] o = "important_molecules" ->
             << Call("important_molecules.analyse", "", 18, "df") >>
      [] o = "degree_distribution" ->
             << Call("degree_distribution.analyse", "distribution_comparison_plot", 28, "df") >>
      [] o = "graph_property" ->
             << Call("graph_property.analyse", "", 22, "df"),
                Call("graph_property.analyse", "", 39, "df"),
                Call("compare_average_shortest_path_length_directed", "", 126, "df") >>
      [] o = "graph_clusters" ->
             << Call("kcore_clustering", "", 45, "df"),
                Call("betwenness_clustering", "", 79, "df") >>
      [] o = "degree_correlation" ->
             << Call("degree_correlation.analyse", "out", 14, "df"),
                Call("degree_correlation.analyse", "in", 14, "df") >>
      [] o = "central_point_dominance" ->
             << Call("central_point_dominance.analyse", "", 13, "df") >>
      [] o = "dataset_comparison" ->
             << Call("dataset_comparison.analyse", "", 20, "df"),
                Call("dataset_comparison.analyse", "", 21, "df_to_compare_to"),
                Call("create_visualisation_of_combined_datasets", "", 76, "concat") >>

\* The data frame an analysis hands to the builder: one of the frames of
\* main.analyse itself, or (dataset_comparison.py line 75) a concatenation.
frame_of(f, table) ==
    IF table = "concat" THEN concat(f["df"], f["df_to_compare_to"]) ELSE f[table]

builder_unchanged ==
    UNCHANGED <<df, nodes, idx, cell, tok, use_chemical_names, allow_multiple_edges,
                added_edges, edges, row, note, graph, previous, analysis>>

\* main.py lines 74-75.
main_read_columns ==
    /\ pc = "main"
    /\ frames' = [frames EXCEPT !["df"] = read_columns(my_file, create_columns(option))]
    /\ pc' = "line 76"
    /\ builder_unchanged
    /\ UNCHANGED <<my_file, file_merge, file_compare, option, calls>>
    /\ UNCHANGED count_vars
    /\ UNCHANGED metric_vars

\* main.py line 76.
main_preprocess ==
    /\ pc = "line 76"
    /\ frames' = [frames EXCEPT !["df"] = step1_lowercase(frames["df"])]
    /\ pc' = CASE option = "merge_and_graph_fragmentation" -> "line 79"
               [] option = "dataset_comparison" -> "line 102"
               [] OTHER -> "analyses"
    /\ builder_unchanged
    /\ UNCHANGED <<my_file, file_merge, file_compare, option, calls>>
    /\ UNCHANGED count_vars
    /\ UNCHANGED metric_vars

\* main.py lines 79-81.
main_merge ==
    /\ pc \in {"line 79", "line 80", "line 81"}
    /\ CASE pc = "line 79" ->
                /\ frames' = [frames EXCEPT
                                 !["df_add"] = read_columns(file_merge, {"Reactant", "Product"})]
                /\ pc' = "line 80"
         [] pc = "line 80" ->
                /\ frames' = [frames EXCEPT !["df_add"] = step1_lowercase(frames["df_add"])]
                /\ pc' = "line 81"
         [] pc = "line 81" ->
                /\ frames' = [frames EXCEPT !["df"] = concat(frames["df"], frames["df_add"])]
                /\ pc' = "analyses"
    /\ builder_unchanged
    /\ UNCHANGED <<my_file, file_merge, file_compare, option, calls>>
    /\ UNCHANGED count_vars
    /\ UNCHANGED metric_vars

\* main.py lines 102-103.
main_compare ==
    /\ pc \in {"line 102", "line 103"}
    /\ CASE pc = "line 102" ->
                /\ frames' = [frames EXCEPT
                                 !["df_to_compare_to"] =
                                     read_columns(file_compare, {"Reactant", "Product"})]
                /\ pc' = "line 103"
         [] pc = "line 103" ->
                /\ frames' = [frames EXCEPT
                                 !["df_to_compare_to"] =
                                     step1_lowercase(frames["df_to_compare_to"])]
                /\ pc' = "analyses"
    /\ builder_unchanged
    /\ UNCHANGED <<my_file, file_merge, file_compare, option, calls>>
    /\ UNCHANGED count_vars
    /\ UNCHANGED metric_vars

\* An analysis other than those of the entry points with a selector: it works
\* on the graph it has built.
analyse_graph ==
    /\ pc = "done"
    /\ analysis.fn \notin EntryPoints \cup {"none"}
    /\ ~calls_average_shortest_path(analysis)
    /\ analysis.fn \notin {"betwenness_clustering", "calculate_cluster_performance"}
    /\ analysis' = [analysis EXCEPT !.plots = << <<analysis.fn, "">> >>]
    /\ pc' = "analysed"
    /\ UNCHANGED <<df, nodes, idx, cell, tok, use_chemical_names,
                   allow_multiple_edges, added_edges, edges, row, note, graph,
                   previous>>
    /\ UNCHANGED count_vars
    /\ UNCHANGED main_vars
    /\ UNCHANGED metric_vars

\* main.py lines 78-105: the next call of the builder by the analysis of the
\* option, on the data frame the analysis hands over, or return 0.  The frame
\* the call before worked on is the caller's own: what the builder did to it
\* stays.
main_next ==
    /\ option # "none"
    /\ pc \in {"analyses", "analysed"}
    /\ LET queue == IF pc = "analyses" THEN calls_of(option) ELSE calls
           back == IF pc = "analysed" /\ analysis.table \in DOMAIN frames
                   THEN [frames EXCEPT ![analysis.table] = df]
                   ELSE frames
       IN  /\ frames' = back
           /\ IF queue = <<>>
              THEN /\ pc' = "returned"
                   /\ analysis' = NoAnalysis
                   /\ calls' = <<>>
                   /\ df' = NoFile
                   /\ previous' = NoCall
              ELSE /\ pc' = "start"
                   /\ analysis' = Head(queue)
                   /\ calls' = Tail(queue)
                   /\ df' = frame_of(back, Head(queue).table)
                   /\ previous' =
                          IF pc = "analysed" /\ Head(queue).table = analysis.table
                          THEN [called |-> TRUE, nodes |-> nodes,
                                note |-> previous.note \/ note]
                          ELSE NoCall
    /\ nodes' = <<>>
    /\ idx' = 0
    /\ cell' = 0
    /\ tok' = 0
    /\ use_chemical_names' = FALSE
    /\ allow_multiple_edges' = FALSE
    /\ added_edges' = <<>>
    /\ edges' = {}
    /\ row' = 0
    /\ note' = FALSE
    /\ graph' = NoGraph
    /\ UNCHANGED <<my_file, file_merge, file_compare, option>>
    /\ UNCHANGED count_vars
    /\ reset_metrics

\* ------------------------------------------------------ specification
\* Outside main.analyse.
NoMain ==
    /\ file_merge = NoFile
    /\ file_compare = NoFile
    /\ option = "none"
    /\ frames = NoFrames
    /\ calls = <<>>

\* main.analyse(option, None, my_file, file_merge, file_compare); the second
\* file of an option that reads one has at most one row.
InitMain ==
    /\ pc = "main"
    /\ option \in Options
    /\ my_file \in Files
    /\ file_merge \in IF option = "merge_and_graph_fragmentation"
                      THEN { f \in Files : len(f) <= 1 } ELSE {NoFile}
    /\ file_compare \in IF option = "dataset_comparison"
                        THEN { f \in Files : len(f) <= 1 } ELSE {NoFile}
    /\ frames = NoFrames
    /\ calls = <<>>
    /\ df = NoFile
    /\ analysis = NoAnalysis
    /\ atr_number = 0
    /\ tuple_list = <<>>

\* The builder called on a table directly, as the tests do.
InitBuilder ==
    /\ pc = "start"
    /\ df \in Tables \cup {df_1, df_first_row, df_with_steps}
    /\ analysis = NoAnalysis
    /\ my_file = NoFile
    /\ NoMain
    /\ atr_number = 0
    /\ tuple_list = <<>>

\* A call of one of the entry points that take a selector.
InitEntryPoint ==
    /\ pc = "start"
    /\ df = df_1
    /\ \E fn \in EntryPoints :
           \E s \in Selectors(fn) :
               analysis = Call(fn, s, IF fn = "degree_correlation.analyse" THEN 14 ELSE 28, "df")
    /\ my_file = NoFile
    /\ NoMain
    /\ atr_number = 0
    /\ tuple_list = <<>>

\* preprocess called on a table as pandas.read_csv gives it.
InitPreprocess ==
    /\ pc = "preprocess"
    /\ my_file \in Files
    /\ df = my_file
    /\ NoMain
    /\ analysis = NoAnalysis
    /\ atr_number = 0
    /\ tuple_list = <<>>

\* betwenness_clustering called on a table without the weight column, or
\* calculate_cluster_performance called on the directed graph of such a table
\* or of the weighted table of tests/test_utils.py, which has parallel edges.
InitClusters ==
    /\ pc = "start"
    /\ \/ /\ df \in { t \in Tables : STEPS \notin DOMAIN t }
          /\ analysis = Call("betwenness_clustering", "", 79, "df")
       \/ /\ df \in { t \in Tables : STEPS \notin DOMAIN t } \cup {df_with_steps}
          /\ analysis = Call("calculate_cluster_performance", "", 153, "df")
    /\ my_file = NoFile
    /\ NoMain
    /\ atr_number = 0
    /\ tuple_list = <<>>

InitCountBy ==
    /\ pc = "count_by"
    /\ df = DataFrame(<<>>, <<>>)
    /\ analysis = NoAnalysis
    /\ my_file = NoFile
    /\ NoMain
    /\ atr_number \in AttributeNumbers
    /\ tuple_list \in TupleLists

Init ==
    /\ \/ InitBuilder \/ InitCountBy \/ InitEntryPoint \/ InitPreprocess \/ InitMain
       \/ InitClusters
    /\ nodes = <<>>
    /\ idx = 0
    /\ cell = 0
    /\ tok = 0
    /\ use_chemical_names = FALSE
    /\ allow_multiple_edges = FALSE
    /\ added_edges = <<>>
    /\ edges = {}
    /\ row = 0
    /\ note = FALSE
    /\ graph = NoGraph
    /\ previous = NoCall
    /\ counter = EmptyDict
    /\ pos = 0
    /\ aspl = NoResult
    /\ NoClusters

Kwargs == UNION { [ks -> BOOLEAN] : ks \in SUBSET Keywords }

Next ==
    \/ get_distinct_chemicals
    \/ scan_chemical
    \/ return_nodes
    \/ \E fn \in Functions, kwargs \in Kwargs : call_get_edges(fn, kwargs)
    \/ edges_of_row
    \/ return_edges
    \/ build_graph
    \/ build_multi_di_graph
    \/ next_call
    \/ degree_distribution_analyse
    \/ create_comparison_plot
    \/ degree_correlation_analyse
    \/ preprocess
    \/ main_read_columns
    \/ main_preprocess
    \/ main_merge
    \/ main_compare
    \/ analyse_graph
    \/ main_next
    \/ count_by_index_error
    \/ count_by_step
    \/ count_by_return
    \/ average_shortest_path
    \/ cluster_performance_call
    \/ largest_component
    \/ girvan_newman
    \/ betwenness_loop
    \/ create_html_visualisation

Spec == Init /\ [][Next]_vars


\* ------------------------------------------------------------ claims
\* What the statements below call generated: the tokens of a cell, the
\* endpoint a token stands for under the keying in force, the triples of the
\* cross product of every row.
Rows == 1..len(df)

Tokens(s) == Range(split(s))

Key(t) == IF use_chemical_names THEN t ELSE nodes[t]

GeneratedTriples ==
    UNION { { <<Key(r), Key(p), df[STEPS][i]>> :
                  r \in Tokens(df["Reactant"][i]), p \in Tokens(df["Product"][i]) }
            : i \in Rows }

PairsOf(T) == { <<t[1], t[2]>> : t \in T }

WeightsOf(T, pair) == { t[3] : t \in { u \in T : u[1] = pair[1] /\ u[2] = pair[2] } }

Min(S) == CHOOSE m \in S : \A x \in S : m <= x

Returned == pc \in {"edges_done", "done"}

\* C1: when get_edges returns with allow_multiple_edges = False, there is exactly
\* one triple for every pair some row generates, its weight is the smallest
\* "Number of Reaction Steps" among the rows generating the pair, and there is
\* no other triple.
C1_MinimumWeightPerPair ==
    (Returned /\ ~allow_multiple_edges) =>
        LET T == GeneratedTriples
        IN  /\ \A pair \in PairsOf(T) :
                   { e \in edges : <<e[1], e[2]>> = pair }
                       = { <<pair[1], pair[2], Min(WeightsOf(T, pair))>> }
            /\ PairsOf(edges) \subseteq PairsOf(T)

\* A pair generated by an earlier row with a larger weight and by a later row
\* with a smaller one, collapsed.
C1_Witness ==
    /\ pc = "edges_done"
    /\ ~allow_multiple_edges
    /\ \E i, j \in Rows :
           /\ i < j
           /\ df[STEPS][i] > df[STEPS][j]
           /\ Tokens(df["Reactant"][i]) \cap Tokens(df["Reactant"][j]) # {}
           /\ Tokens(df["Product"][i]) \cap Tokens(df["Product"][j]) # {}

\* The six edges of the row ("calcium; oxygen; nitrogen", "oxygen; hydrogen").
first_row_edges ==
    { <<Key(r), Key(p), 1>> :
          r \in { <<"calcium">>, <<"oxygen">>, <<"nitrogen">> },
          p \in { <<"oxygen">>, <<"hydrogen">> } }

\* C2: when get_edges returns with allow_multiple_edges = True, the set holds
\* exactly the triples (r, p, w) of the full cross product of every row; the
\* first fixture row alone, without a weight column, gives its six edges of
\* weight 1.
C2_FullCrossProduct ==
    (Returned /\ allow_multiple_edges) =>
        /\ edges = GeneratedTriples
        /\ (df["Reactant"] = df_first_row["Reactant"]
                /\ df["Product"] = df_first_row["Product"] /\ note)
               => (edges = first_row_edges /\ Cardinality(edges) = 6)

\* The first fixture row, expanded, and elsewhere a pair with two weights.
C2_Witness ==
    /\ pc = "edges_done"
    /\ allow_multiple_edges
    /\ \E e, f \in edges : e[1] = f[1] /\ e[2] = f[2] /\ e[3] # f[3]
    /\ \E i \in Rows : Cardinality(Tokens(df["Reactant"][i])) > 1

\* The first fixture row, expanded.
C2_FixtureReached ==
    /\ pc = "edges_done"
    /\ allow_multiple_edges
    /\ df["Reactant"] = df_first_row["Reactant"]
    /\ note
    /\ Cardinality(edges) = 6

\* C3 as stated: create_weighted_directed_graph called with its default
\* arguments returns a multigraph whose (source, target, weight) edges are the
\* full set of cross-product triples, parallel edges included.
C3_DefaultDirectedKeepsParallelEdges ==
    ( /\ pc = "done"
      /\ graph.kind = "MultiDiGraph"
      /\ use_chemical_names
             = defaults("create_weighted_directed_graph")["use_chemical_names"]
      /\ allow_multiple_edges
             = defaults("create_weighted_directed_graph")["allow_multiple_edges"] )
        => BagToSet(graph.adj) = GeneratedTriples

AllTokens ==
    UNION { Tokens(df["Reactant"][i]) \cup Tokens(df["Product"][i]) : i \in Rows }

Trimmed(t) == rstrip(lstrip(t))

TrimmedTokens == { Trimmed(t) : t \in AllTokens }

\* C4: the dictionary get_distinct_chemicals returns has as many distinct
\* identifiers as there are distinct trimmed tokens in the two columns, and its
\* keys are exactly those tokens.
C4_OneIdentifierPerTrimmedToken ==
    pc = "nodes" =>
        /\ Cardinality(Range(nodes)) = Cardinality(TrimmedTokens)
        /\ DOMAIN nodes = TrimmedTokens

\* A table in which trimming merges two tokens.
C4_Witness ==
    /\ pc = "nodes"
    /\ Cardinality(TrimmedTokens) < Cardinality(AllTokens)
    /\ Cardinality(DOMAIN nodes) >= 2


RECURSIVE Flatten(_)
Flatten(cells) == IF cells = <<>> THEN <<>> ELSE split(Head(cells)) \o Flatten(Tail(cells))

\* The trimmed names in the order of the scan: the Reactant cells in row order,
\* then the Product cells, tokens left to right.
ScanOrder ==
    LET ts == Flatten(df["Reactant"] \o df["Product"]) IN [i \in DOMAIN ts |-> Trimmed(ts[i])]

FirstIndex(order, name) ==
    CHOOSE i \in DOMAIN order : order[i] = name /\ \A j \in 1..(i - 1) : order[j] # name

\* k such that name is the k-th distinct name of the scan.
FirstSeenRank(order, name) == Cardinality({ order[j] : j \in 1..FirstIndex(order, name) })

\* Tokens the scan has gone through at (cell, tok).
Scanned == Len(Flatten(SubSeq(list_of_chemicals(df), 1, cell - 1))) + tok - 1

\* C5: identifiers are given in first-seen order from 1: the k-th distinct trimmed
\* name gets k, so the dictionary is injective with values 1..n, and at every
\* step of the scan idx is the number of names mapped so far plus 1.
C5_FirstSeenOrderFromOne ==
    (pc \in {"scan", "nodes"}) =>
        LET order == ScanOrder
        IN  /\ idx = Cardinality(DOMAIN nodes) + 1
            /\ \A m, n \in DOMAIN nodes : nodes[m] = nodes[n] => m = n
            /\ Range(nodes) = 1..Cardinality(DOMAIN nodes)
            /\ \A name \in DOMAIN nodes : nodes[name] = FirstSeenRank(order, name)
            /\ pc = "scan" => DOMAIN nodes = { order[j] : j \in 1..Scanned }
            /\ pc = "nodes" => DOMAIN nodes = Range(order)

\* A scan over three names in which a name comes back before a new one is met.
C5_Witness ==
    /\ pc = "nodes"
    /\ Cardinality(DOMAIN nodes) >= 3
    /\ \E i, j, k \in DOMAIN ScanOrder :
           /\ i < j /\ j < k
           /\ ScanOrder[i] = ScanOrder[j]
           /\ \A m \in 1..(k - 1) : ScanOrder[m] # ScanOrder[k]

\* C6 as stated: a table without the weight column makes get_edges raise no
\* error, and every edge it returns has weight 1, whatever the flags.
C6_MissingWeightColumnNoError ==
    note => (pc # "KeyError" /\ \A e \in edges : e[3] = 1)

Attr(i) == tuple_list[i][atr_number + 1]

FirstAt(v) == CHOOSE i \in DOMAIN tuple_list : Attr(i) = v /\ \A j \in 1..(i - 1) : Attr(j) # v

RECURSIVE SumSeq(_)
SumSeq(q) == IF q = <<>> THEN 0 ELSE Head(q) + SumSeq(Tail(q))

\* C7: count_by returns the distinct values of the chosen field in first-seen
\* order and, at the same positions, how many tuples have each value; the counts
\* add up to the length of the list; the fixture grouped by its second element
\* gives 0: 3, 1: 1, 2: 1.
C7_CountByFirstSeenWithCounts ==
    pc = "counted" =>
        /\ Len(count_by_x) = Len(count_by_y)
        /\ Range(count_by_x) = { Attr(i) : i \in DOMAIN tuple_list }
        /\ \A i, j \in DOMAIN count_by_x :
               i < j => FirstAt(count_by_x[i]) < FirstAt(count_by_x[j])
        /\ \A i \in DOMAIN count_by_x :
               count_by_y[i]
                   = Cardinality({ k \in DOMAIN tuple_list : Attr(k) = count_by_x[i] })
        /\ SumSeq(count_by_y) = Len(tuple_list)
        /\ (tuple_list = list_of_tuples /\ atr_number = 1)
               => (count_by_x = <<0, 1, 2>> /\ count_by_y = <<3, 1, 1>>)

\* The fixture grouped by its second element.
C7_Witness ==
    /\ pc = "counted"
    /\ tuple_list = list_of_tuples
    /\ atr_number = 1
    /\ Len(count_by_x) = 3

oxygen == <<"oxygen">>

\* C8 as stated: on the five-row fixture with weights 2, 1, 3, 7, 4 and
\* multiple edges disallowed, the edge of (oxygen, oxygen) is (oxygen, oxygen, 4).
C8_OxygenLoopHasWeight4 ==
    (pc = "edges_done" /\ df = df_with_steps /\ ~allow_multiple_edges)
        => <<Key(oxygen), Key(oxygen), 4>> \in edges

\* get_expected_edges_without_multiples of tests/test_utils.py.
expected_edges_without_multiples ==
    { <<Key(<<"calcium">>), Key(oxygen), 2>>,
      <<Key(oxygen), Key(oxygen), 2>>,
      <<Key(<<"nitrogen">>), Key(oxygen), 2>>,
      <<Key(<<"calcium">>), Key(<<"hydrogen">>), 2>>,
      <<Key(oxygen), Key(<<"hydrogen">>), 2>>,
      <<Key(<<"nitrogen">>), Key(<<"hydrogen">>), 2>>,
      <<Key(<<"carbon-dioxide">>), Key(<<"carbon-dioxide">>), 1>>,
      <<Key(<<"nitrogen">>), Key(<<"nitrogen">>), 3>> }

\* C8, amended: on that fixture the edge of (oxygen, oxygen) is
\* (oxygen, oxygen, 2): the first row generates the pair too, with weight 2,
\* the smallest of 2, 7 and 4; the set returned is the one the test expects.
C8_OxygenLoopHasWeight2 ==
    (pc = "edges_done" /\ df = df_with_steps /\ ~allow_multiple_edges) =>
        /\ { e \in edges : e[1] = Key(oxygen) /\ e[2] = Key(oxygen) }
               = { <<Key(oxygen), Key(oxygen), 2>> }
        /\ edges = expected_edges_without_multiples

\* The fixture, collapsed.
C8_Witness ==
    /\ pc = "edges_done"
    /\ df = df_with_steps
    /\ ~allow_multiple_edges
    /\ WeightsOf(GeneratedTriples, <<Key(oxygen), Key(oxygen)>>) = {2, 7, 4}

ParallelEdges(pair) ==
    { e \in BagToSet(graph.adj) : e[1] = pair[1] /\ e[2] = pair[2] }

\* C9: the directed multigraph holds, with multiple edges allowed, exactly one
\* parallel edge per distinct weight generated for an ordered pair, and with
\* multiple edges disallowed exactly one edge per ordered pair; its
\* (source, target, weight) edges are the set get_edges returned.
C9_DirectedParallelEdges ==
    (pc = "done" /\ graph.kind = "MultiDiGraph") =>
        LET T == GeneratedTriples
        IN  /\ BagToSet(graph.adj) = edges
            /\ \A e \in BagToSet(graph.adj) :
                   CopiesIn(e, graph.adj) = 1 /\ <<e[1], e[2]>> \in PairsOf(T)
            /\ allow_multiple_edges =>
                   \A pair \in PairsOf(T) :
                       { e[3] : e \in ParallelEdges(pair) } = WeightsOf(T, pair)
            /\ ~allow_multiple_edges =>
                   \A pair \in PairsOf(T) : Cardinality(ParallelEdges(pair)) = 1

\* A multigraph with two parallel edges of different weights.
C9_Witness ==
    /\ pc = "done"
    /\ graph.kind = "MultiDiGraph"
    /\ allow_multiple_edges
    /\ \E e, f \in BagToSet(graph.adj) : e[1] = f[1] /\ e[2] = f[2] /\ e[3] # f[3]

Between(es, u, v) == { e \in es : {e[1], e[2]} = {u, v} }

C11_UndirectedMinimumEitherOrientation ==
    (pc = "done" /\ graph.kind = "Graph" /\ ~allow_multiple_edges) =>
        LET T == GeneratedTriples
        IN  \A a \in graph.adj :
                a[3] = Min(WeightsOf(T, <<a[1], a[2]>>) \cup WeightsOf(T, <<a[2], a[1]>>))

Loops(es, c) == { e \in es : e[1] = c /\ e[2] = c }

\* C12: a token standing among the reactants and among the products of a row
\* gives a self-loop: get_edges returns (c, c, w) for it, with w the weight of
\* the row when multiple edges are allowed and the smallest weight of the pair
\* otherwise, under both keyings, and the graph built from the edges, directed
\* or undirected, has a loop on c.
C12_SelfLoopsPreserved ==
    Returned =>
        \A i \in Rows :
            \A c \in Tokens(df["Reactant"][i]) \cap Tokens(df["Product"][i]) :
                /\ allow_multiple_edges => <<Key(c), Key(c), df[STEPS][i]>> \in edges
                /\ ~allow_multiple_edges =>
                       \E e \in Loops(edges, Key(c)) : e[3] <= df[STEPS][i]
                /\ (pc = "done" /\ graph.kind = "Graph") =>
                       Loops(graph.adj, Key(c)) # {}
                /\ (pc = "done" /\ graph.kind = "MultiDiGraph") =>
                       Loops(BagToSet(graph.adj), Key(c)) # {}

\* A graph built from a row that has a token of a several-token cell on both
\* sides.
C12_Witness ==
    /\ pc = "done"
    /\ \E i \in Rows :
           /\ Tokens(df["Reactant"][i]) \cap Tokens(df["Product"][i]) # {}
           /\ Tokens(df["Reactant"][i]) # Tokens(df["Product"][i])

\* C13: get_distinct_chemicals returns, for a table it was run on before, the
\* mapping it returned then, whether or not get_edges ran on the table in
\* between.
C13_SameMappingOnEveryRun ==
    (pc = "nodes" /\ previous.called) => nodes = previous.nodes

\* A second run on a table of several names, in which get_edges has filled in
\* the weight column since the first run.
C13_Witness ==
    /\ pc = "nodes"
    /\ previous.called
    /\ previous.note
    /\ Cardinality(DOMAIN nodes) >= 2

\* C14: an entry point given a selector that is none of its documented values
\* does not return normally and makes no plot or computation.
C14_InvalidSelectorSignalled ==
    (analysis.fn \in EntryPoints /\ analysis.selector \notin Documented(analysis.fn)) =>
        pc # "analysed" /\ analysis.plots = <<>>

Strings(column) == { i \in DOMAIN column : column[i] # NaN }

\* C15: after preprocess, once or twice, the table has the columns and the
\* number of rows it had, each string cell of Reactant and Product is the
\* lowercase form of the cell that was at its place, each missing cell of the
\* two columns is still missing, and the other column is as it was.
C15_PreprocessLowercases ==
    pc \in {"preprocessed", "preprocessed again"} =>
        /\ DOMAIN df = DOMAIN my_file
        /\ df[STEPS] = my_file[STEPS]
        /\ \A c \in {"Reactant", "Product"} :
               /\ DOMAIN df[c] = DOMAIN my_file[c]
               /\ \A i \in DOMAIN my_file[c] :
                      /\ i \in Strings(my_file[c]) =>
                             /\ Len(df[c][i]) = Len(my_file[c][i])
                             /\ \A k \in DOMAIN df[c][i] :
                                    df[c][i][k] =
                                        IF my_file[c][i][k] \in {"A", "B"}
                                        THEN lower_char(my_file[c][i][k])
                                        ELSE my_file[c][i][k]
                      /\ i \notin Strings(my_file[c]) => df[c][i] = NaN

\* preprocess applied twice to a table with an uppercase cell and a missing
\* cell.
C15_Witness ==
    /\ pc = "preprocessed again"
    /\ \E i \in DOMAIN my_file["Reactant"] : my_file["Reactant"][i] = <<"A">>
    /\ \E i \in DOMAIN my_file["Product"] : my_file["Product"][i] = NaN
    /\ df # my_file

\* C16: two tokens of the table have the same identifier exactly when they are
\* equal after trimming; in particular two tokens that differ in the case of a
\* letter have different identifiers.
C16_IdentityIsTrimmedToken ==
    pc = "nodes" =>
        \A t, u \in AllTokens :
            /\ Trimmed(t) \in DOMAIN nodes
            /\ Trimmed(u) \in DOMAIN nodes
            /\ (nodes[Trimmed(t)] = nodes[Trimmed(u)]) <=> (Trimmed(t) = Trimmed(u))

\* A table with a padded token next to its trimmed form, and with two tokens
\* that differ in case only.
C16_Witness ==
    /\ pc = "nodes"
    /\ \E t, u \in AllTokens : t # u /\ Trimmed(t) = Trimmed(u)
    /\ {<<"A">>, <<"a">>} \subseteq AllTokens

\* C17: when get_edges returns for a name-keyed call, the index-keyed call
\* with the same table, mapping and policy returns too, and its edges are
\* those of the name-keyed call with each endpoint replaced by its identifier,
\* as many as there are name-keyed edges.
C17_KeyingOnlyRelabels ==
    (pc = "edges_done" /\ use_chemical_names) =>
        LET indexed == get_edges(df, nodes, FALSE, allow_multiple_edges)
        IN  /\ ~indexed.raised
            /\ indexed.edges = { <<nodes[e[1]], nodes[e[2]], e[3]>> : e \in edges }
            /\ Cardinality(indexed.edges) = Cardinality(edges)

\* C18: count_by on the empty list raises nothing and returns no value and no
\* count, whatever the attribute number.
C18_CountByEmpty ==
    (tuple_list = <<>> /\ pc \in {"count_by", "counted", "IndexError"}) =>
        /\ pc # "IndexError"
        /\ pc = "counted" => (count_by_x = <<>> /\ count_by_y = <<>>)

\* count_by returned for the empty list and a position a pair does not have.
C18_Witness ==
    /\ pc = "counted"
    /\ tuple_list = <<>>
    /\ atr_number = 2

Complete(file, columns) ==
    { i \in 1..len(file) : \A c \in columns : ~isna(c, file[c][i]) }

NamesOnly == {"Reactant", "Product"}

Clean(d) ==
    \A c \in NamesOnly :
        \A i \in DOMAIN d[c] :
            d[c][i] # NaN /\ \A k \in DOMAIN d[c][i] : d[c][i][k] \notin {"A", "B"}

\* C19: while the builder runs for main.analyse, whatever the option, the data
\* frame it works on and the data frames main.analyse has read have no missing
\* Reactant or Product and no uppercase letter in them, and hold as many rows
\* as their files have rows without a missing value in the columns read.
C19_CleanBeforeBuilder ==
    (option # "none"
         /\ pc \in {"start", "scan", "nodes", "edges", "edges_done", "done", "KeyError"}) =>
        /\ Clean(df)
        /\ \A t \in DOMAIN frames : Clean(frames[t])
        /\ len(frames["df"])
               = Cardinality(Complete(my_file, create_columns(option)))
                     + Cardinality(Complete(file_merge, NamesOnly))
        /\ len(frames["df_to_compare_to"]) = Cardinality(Complete(file_compare, NamesOnly))
        /\ len(frames["df_add"]) = Cardinality(Complete(file_merge, NamesOnly))

\* The builder is about to run on the merge of a file that has an uppercase
\* row and a row without reactant with a file whose only row has a missing
\* value.
C19_Witness ==
    /\ option = "merge_and_graph_fragmentation"
    /\ pc = "start"
    /\ len(df) = 1
    /\ len(my_file) = 2
    /\ \E i \in 1..len(my_file) : my_file["Reactant"][i] = <<"A">>
    /\ \E i \in 1..len(my_file) : my_file["Reactant"][i] = NaN
    /\ len(file_merge) = 1
    /\ Complete(file_merge, NamesOnly) = {}

\* C20: the builder leaves the caller's table as it was: once get_edges has
\* run, no column has been added to the table, and the data frame an analysis
\* of main.analyse handed to the builder is still the one main.analyse holds.
C20_BuilderLeavesTableUnchanged ==
    /\ pc \in {"edges", "edges_done", "done", "KeyError"} => ~note
    /\ (option # "none" /\ pc \in {"edges", "edges_done", "done", "analysed"}
            /\ analysis.table \in DOMAIN frames) =>
           df = frames[analysis.table]

\* The triples the rows 1..n of the table generate.
TriplesUpTo(n) ==
    UNION { { <<Key(r), Key(p), df[STEPS][i]>> :
                  r \in Tokens(df["Reactant"][i]), p \in Tokens(df["Product"][i]) }
            : i \in 1..n }

\* C21: while get_edges processes the rows in order with allow_multiple_edges =
\* False, after every processed row the dictionary holds exactly the pairs the
\* processed rows generate, each with the smallest weight among the processed
\* rows generating it; and processing a further row never removes a recorded
\* pair nor increases a recorded weight.
C21_RunningMinimumPerRow ==
    /\ [](( pc = "edges" /\ ~allow_multiple_edges ) =>
            LET T == TriplesUpTo(row)
            IN  /\ DOMAIN added_edges = PairsOf(T)
                /\ \A k \in DOMAIN added_edges :
                       added_edges[k] = Min(WeightsOf(T, k)))
    /\ [][ ( pc = "edges" /\ pc' = "edges" /\ ~allow_multiple_edges ) =>
              \A k \in DOMAIN added_edges :
                  /\ k \in DOMAIN added_edges'
                  /\ added_edges'[k] <= added_edges[k] ]_vars

\* Two rows processed, the second having lowered the weight the first recorded
\* for a pair, with the loop still to return.
C21_Witness ==
    /\ pc = "edges"
    /\ ~allow_multiple_edges
    /\ row = 2
    /\ \E k \in DOMAIN added_edges :
           /\ k \in PairsOf(TriplesUpTo(1))
           /\ added_edges[k] < df[STEPS][1]

\* What get_edges returns for the same table, mapping and keying under the
\* other multi-edge policy.
OtherPolicy == get_edges(df, nodes, use_chemical_names, ~allow_multiple_edges)

\* C22: when get_edges returns, the call under the other multi-edge policy
\* returns too, the two results have the same set of (source, target) pairs,
\* and every triple of the result without multiple edges is a triple of the
\* result with multiple edges.
C22_PoliciesAgreeOnPairs ==
    Returned =>
        LET other == OtherPolicy
            collapsed == IF allow_multiple_edges THEN other.edges ELSE edges
            parallel == IF allow_multiple_edges THEN edges ELSE other.edges
        IN  /\ ~other.raised
            /\ PairsOf(collapsed) = PairsOf(parallel)
            /\ collapsed \subseteq parallel

\* A call without multiple edges has returned for a table in which the other
\* policy keeps a parallel edge that the collapse dropped.
C22_Witness ==
    /\ pc = "edges_done"
    /\ ~allow_multiple_edges
    /\ edges # {}
    /\ \E e \in OtherPolicy.edges : e \notin edges

\* The orders in which n rows can be written.
RowOrders(n) ==
    { p \in [1..n -> 1..n] : \A i, j \in 1..n : p[i] = p[j] => i = j }

\* The table d with its rows in the order p.
Permuted(d, p) == [c \in DOMAIN d |-> [i \in 1..len(d) |-> d[c][p[i]]]]

\* C23: when a name-keyed get_edges returns, the call with the same flags on
\* the same rows written in any other order returns the same set of edges,
\* with multiple edges or without, whether the weights of a pair differ or tie.
C23_RowOrderIndependent ==
    (Returned /\ use_chemical_names) =>
        \A p \in RowOrders(len(df)) :
            LET reordered == get_edges(Permuted(df, p), nodes, TRUE,
                                       allow_multiple_edges)
            IN  ~reordered.raised /\ reordered.edges = edges

\* A name-keyed call without multiple edges has returned for a table whose
\* first row gives a pair a smaller weight than its second row does, so that
\* the other order of the rows takes the branch of line 107.
C23_Witness ==
    /\ pc = "edges_done"
    /\ use_chemical_names
    /\ ~allow_multiple_edges
    /\ len(df) >= 2
    /\ df[STEPS][1] < df[STEPS][2]
    /\ Tokens(df["Reactant"][1]) \cap Tokens(df["Reactant"][2]) # {}
    /\ Tokens(df["Product"][1]) \cap Tokens(df["Product"][2]) # {}

\* C24 as stated: for a table whose Reactant and Product cells are all strings,
\* get_edges raises no KeyError, and each graph a builder returns has as its
\* nodes exactly the identifiers of the mapping (names when name-keyed,
\* integers when index-keyed), every edge endpoint among them.
C24_TokensResolveNodesAreMapping ==
    (\A c \in NamesOnly : \A i \in DOMAIN df[c] : df[c][i] # NaN) =>
        /\ pc # "KeyError"
        /\ graph.kind # "none" =>
               /\ graph.nodes = graph_nodes(nodes, use_chemical_names)
               /\ endpoints_of(edges) \subseteq graph_nodes(nodes, use_chemical_names)

\* The sum of the values of a function.
RECURSIVE Total(_)
Total(f) ==
    IF DOMAIN f = {} THEN 0
    ELSE LET p == CHOOSE q \in DOMAIN f : TRUE
         IN  f[p] + Total([q \in DOMAIN f \ {p} |-> f[q]])

\* C25 as stated: when average_shortest_path returns, x lists every length
\* from 1 to the largest finite shortest-path length, y[i] is the share of the
\* ordered pairs of distinct nodes with a finite distance whose distance is i,
\* and avg is the mean of the distances of all those pairs.
C25_MeanOfAllFiniteLengths ==
    aspl.returned =>
        LET d == distances(graph)
            pairs == Cardinality(DOMAIN d)
        IN  /\ aspl.x = [i \in 1..max_length(d) |-> i]
            /\ DOMAIN aspl.y = DOMAIN aspl.x
            /\ \A i \in DOMAIN aspl.y :
                   aspl.y[i][1] * pairs
                       = aspl.y[i][2] * Cardinality({ p \in DOMAIN d : d[p] = i })
            /\ aspl.avg[1] * pairs = aspl.avg[2] * Total(d)

\* C26 as stated: average_shortest_path raises no error, whatever the graph.
C26_NoErrorOnAnyGraph ==
    pc # "ZeroDivisionError"

\* The edges of the graph, a parallel edge as often as the graph holds it, as
\* pairs of an edge and its number among its copies.
EdgeList ==
    IF graph.kind = "MultiDiGraph"
    THEN UNION { { <<e, c>> : c \in 1..graph.adj[e] } : e \in DOMAIN graph.adj }
    ELSE { <<e, 1>> : e \in graph.adj }

Intra(community) ==
    Cardinality({ p \in EdgeList : p[1][1] \in community /\ p[1][2] \in community })

Inter(community) ==
    Cardinality({ p \in EdgeList : (p[1][1] \in community) # (p[1][2] \in community) })

\* The sum of 2 * Intra / Inter over the communities of a list, as a quotient.
RECURSIVE SumOfRatings(_)
SumOfRatings(communities) ==
    IF communities = <<>> THEN <<0, 1>>
    ELSE add(quotient(2 * Intra(Head(communities)), Inter(Head(communities))),
             SumOfRatings(Tail(communities)))

Scored == pc = "performance" \/ (pc = "comp" /\ cluster_performance # <<>>)

\* C27: when calculate_cluster_performance returns, called on a list of
\* communities directly or by betwenness_clustering, the score is -1 for a list
\* of one community, and otherwise the number of communities times the score is
\* the sum over the communities of 2 * intra / inter, intra the number of edges
\* (each parallel edge and each self-loop counted once) with both ends in the
\* community and inter the number of edges with exactly one end in it.
C27_MeanOfRatings ==
    Scored =>
        IF Len(components) = 1 THEN performance = <<-1, 1>>
        ELSE LET sum == SumOfRatings(components)
             IN  performance[1] * sum[2] * Len(components) = sum[1] * performance[2]

\* A score above 0 has been returned for two communities of a graph with
\* parallel edges and a self-loop.
C27_Witness ==
    /\ pc = "performance"
    /\ Len(components) = 2
    /\ \E p \in EdgeList : p[1][1] = p[1][2]
    /\ \E p, q \in EdgeList : p # q /\ p[1][1] = q[1][1] /\ p[1][2] = q[1][2]
    /\ greater(performance, <<0, 1>>)

\* The score -1 has been returned for a list of one community.
C27_WitnessOne ==
    /\ pc = "performance"
    /\ Len(components) = 1
    /\ performance = <<-1, 1>>

Clustering == analysis.fn = "betwenness_clustering" /\ analysis.line = 83

\* C28: in betwenness_clustering the directed graph cut down to the largest
\* component of the undirected graph is weakly connected; every list of
\* communities handed to calculate_cluster_performance has two or more
\* communities, each with an edge to another community, and holds both ends
\* of every edge; and the score computation raises neither ZeroDivisionError
\* nor KeyError.
C28_ScoreNeverFails ==
    Clustering =>
        /\ pc \notin {"ZeroDivisionError", "KeyError"}
        /\ pc = "comp" =>
               /\ Cardinality(connected_components(graph.nodes,
                                                   undirected_edges(graph))) = 1
               /\ graph.nodes = largest_connected_component
        /\ components # <<>> =>
               /\ Len(components) >= 2
               /\ \A i \in DOMAIN components : Inter(components[i]) >= 1
               /\ \A p \in EdgeList :
                      {p[1][1], p[1][2]} \subseteq UNION Range(components)

\* Two splits have been scored for a table whose graph has a second, smaller
\* component that the clustering leaves out.
C28_Witness ==
    /\ Clustering
    /\ pc = "comp"
    /\ Len(cluster_performance) = 2
    /\ Len(components) = 3
    /\ endpoints_of(edges) \ graph.nodes # {}

\* The value of a score, an exact quotient, set against another's.
Above(p, q) == p[1] * q[2] > q[1] * p[2]

\* The scores recorded so far that exceed 0.
Positive == { j \in DOMAIN cluster_performance :
                  Above(cluster_performance[j], <<0, 1>>) }

\* best_performance and best_partition are what the scores recorded so far
\* call for: the largest score above 0 and the earliest partition with that
\* score, the j-th partition being the one of j + 1 components; 0 and the
\* empty list when no score is above 0.
BestOfRecorded ==
    IF Positive = {}
    THEN best_performance = <<0, 1>> /\ best_partition = <<>>
    ELSE /\ \A j \in Positive : ~Above(cluster_performance[j], best_performance)
         /\ \E j \in Positive :
                /\ cluster_performance[j] = best_performance
                /\ Len(best_partition) = j + 1
                /\ \A i \in 1..(j - 1) :
                       Above(best_performance, cluster_performance[i])

\* One more score is recorded: for the partition just produced, which has one
\* component more than the one before; it becomes the best partition only
\* when its score is above the best so far, and the best is otherwise kept.
ScoredInOrder ==
    (Clustering /\ pc = "comp" /\ cluster_performance' # cluster_performance) =>
        /\ Len(cluster_performance) < splits
        /\ cluster_performance' = Append(cluster_performance, performance')
        /\ Len(components') = Len(cluster_performance') + 1
        /\ IF Above(performance', best_performance)
           THEN best_performance' = performance' /\ best_partition' = components'
           ELSE best_performance' = best_performance /\ best_partition' = best_partition

\* C30: betwenness_clustering scores at most k Girvan-Newman partitions, in the
\* order they are produced; after each of them best_performance is the
\* largest score so far that exceeds 0 (0 if none) and best_partition the
\* earliest partition with that score (empty if none): a later partition of
\* equal score does not replace it, and no more than k scores are recorded.
C30_BestIsEarliestMaximum ==
    /\ []((Clustering /\ pc \in {"comp", "visualised", "analysed"}) =>
              (Len(cluster_performance) <= splits /\ BestOfRecorded))
    /\ [][ScoredInOrder]_vars

\* The loop has stopped at k = 2 scores with edges left to remove, and the
\* second partition, which did not score higher, has not replaced the first.
C30_Witness ==
    /\ Clustering
    /\ pc = "comp"
    /\ splits = 2
    /\ Len(cluster_performance) = splits
    /\ comp # {}
    /\ Len(best_partition) = 2
    /\ best_performance = cluster_performance[1]
    /\ ~Above(cluster_performance[2], best_performance)

\* The one partition scored 0, the value best_performance starts from, and has
\* not become the best partition.
C30_WitnessEqual ==
    /\ Clustering
    /\ pc = "comp"
    /\ cluster_performance = << <<0, 1>> >>
    /\ best_partition = <<>>

====
